---- MODULE Spec2Model ----
(***************************************************************************)
(* Model of the predictor orchestration engine, src/script_hander/app.py:  *)
(* the control API (one HTTPServer thread serving requests one at a time), *)
(* the scheduler loop, the async job workers, the cycle executor and the   *)
(* child-process runner.                                                   *)
(*                                                                         *)
(* Atomicity: one action is one access to process-wide state (RUN_LOCK,    *)
(* CANCEL_EVENT, RUN_PROC, CURRENT_JOB_ID, JOBS, the child process)        *)
(* together with the thread-local code around it.  Consecutive writes of   *)
(* one thread to STATUS are taken in the step of the shared access they    *)
(* follow, and the thread-local steps of run_cycle between two child       *)
(* processes (the loop heads, fetch_script, fetch_device_telemetry,        *)
(* build_payload) are taken with the step that leads to them.  The *_ts    *)
(* fields of STATUS and last_duration_ms are left out.                     *)
(*                                                                         *)
(* Spec is the engine with its threads; time and the artifact cache are    *)
(* left alone there.  SpecRunner is run_script against the clock,          *)
(* SpecCache is fetch_script on the files of CACHE_DIR, SpecNormalize is   *)
(* normalize_output over the dicts a script can print, and SpecCycle is    *)
(* the script and device loops of run_cycle with every call recorded.      *)
(***************************************************************************)
EXTENDS Integers, Sequences, FiniteSets, TLC

(* -------------------------- bounds ------------------------------------- *)
MaxJobs == 1          \* run_async submissions accepted in one behaviour
MaxRequests == 2      \* POST requests the server takes in one behaviour
MaxTicks == 1         \* iterations of the scheduler loop in one behaviour
MaxDevices == 1       \* devices of the largest mapping

(* -------------------------- identifiers -------------------------------- *)
None == 0             \* Python None for job ids and for the process handle
NoTs == -1            \* Python None for a timestamp
HTTP == -1            \* the HTTPServer.serve_forever thread
SCHED == -2           \* the scheduler_loop thread
JobIds == 1..MaxJobs  \* uuid4().hex of the jobs, in order of creation
UnknownId == MaxJobs + 1   \* a job id no create_job ever returned
Threads == {HTTP, SCHED} \cup JobIds

VARIABLES
  MODE,            \* SCRIPT_HANDLER_MODE: "server" or "loop"
  mappingFile,     \* the file at MAPPING_PATH, not edited while the service runs
  RUN_LOCK,        \* TRUE while the threading.Lock is held
  CANCEL_EVENT,    \* the threading.Event
  RUN_PROC,        \* None or the thread whose Popen object the global names
  procs,           \* per spawning thread: the state of its child process
  CURRENT_JOB_ID,  \* None or a job id
  STATUS,          \* the engine status snapshot
  JOBS,            \* the job registry: created job ids -> job record
  clock,           \* time.time(); the poll loop of run_script reads it in sleeps of 0.2 s
  served,          \* POST requests taken so far
  ticks,           \* scheduler iterations started so far
  pc,              \* per thread: position in its code
  req,             \* the request the HTTP thread is serving: operation, jobId, body
  ret,             \* per thread: the dict execute_cycle returned
  exc,             \* per thread: the exception in flight ("" when none)
  mapping,         \* per thread: the mapping its cycle read
  si,              \* per thread: index in the script loop of run_cycle
  di,              \* per thread: index in the device loop of run_cycle
  items,           \* per thread: the items list of run_cycle
  posts,           \* per thread: the requests its cycle sent to /predictions/apply
  killedRunning,   \* history: jobs named by a kill while running their cycle
  killDuring,      \* history: a kill set the flag since the lock was taken
  killing,         \* history: a kill was answered killing since the lock was taken
  child,           \* the child of the timed runner: does it exit, does it read its stdin
  bigPayload,      \* the payload written to the child's stdin exceeds the pipe's capacity
  spawnedAt,       \* history: the clock when Popen returned
  start,           \* run_script's local start = time.time()
  wake,            \* the clock at which the sleep of the poll loop ends
  cache,           \* the files of CACHE_DIR: file name -> content
  last,            \* history: the last call of fetch_script, its inputs and what it did
  norm,            \* history: the last call of normalize_output, its inputs and its result
  cyc              \* one run_cycle followed call by call: its inputs, its place, its calls

sharedVars == <<RUN_LOCK, CANCEL_EVENT, RUN_PROC, procs, CURRENT_JOB_ID, STATUS, JOBS>>
cycleVars == <<mapping, si, di, items, posts>>
histVars == <<killedRunning, killDuring, killing>>
envVars == <<MODE, mappingFile, served, ticks>>
runnerVars == <<child, bigPayload, spawnedAt, start, wake>>
cacheVars == <<cache, last>>
callVars == <<norm, cyc>>
\* what the steps of the control flow leave alone
sideVars == <<clock, runnerVars, cacheVars, callVars>>
vars == <<envVars, sharedVars, sideVars, pc, req, ret, exc, cycleVars, histVars>>

(* -------------------------- values ------------------------------------- *)
\* the dict execute_cycle returns; items = -1 and detail = "" stand for an absent key
Result(status, n, detail) == [status |-> status, items |-> n, detail |-> detail]
NoResult == Result("none", -1, "")

\* a mapping file: ok = FALSE is a file read_mapping cannot open or parse
Script(name, scope) == [name |-> name, scope |-> scope]
Mapping(ok, enabled, scripts, devices, globalDevice) ==
  [ok |-> ok, enabled |-> enabled, scripts |-> scripts, devices |-> devices,
   globalDevice |-> globalDevice]
NoMapping == Mapping(FALSE, FALSE, <<>>, <<>>, None)
AllDevices == [i \in 1..MaxDevices |-> i]
GlobalDevice == MaxDevices + 1
Mappings ==
  { NoMapping,
    Mapping(TRUE, FALSE, <<Script("s1", "per-device")>>, AllDevices, None),
    Mapping(TRUE, TRUE, <<Script("g1", "global"), Script("s1", "per-device")>>, AllDevices,
            GlobalDevice) }

\* the body of a run request: a falsy filter (absent, null or empty) is <<>>
Payload(scripts, deviceIds) == [scripts |-> scripts, deviceIds |-> deviceIds]
NoPayload == Payload(<<>>, <<>>)
Payloads == { NoPayload, Payload(<<"s1">>, <<1>>) }

\* a child process: what it writes to stdout when it exits by itself
Stdouts == { "", "{}", "{telemetry}" }
Proc(state, returncode, stdout) == [state |-> state, returncode |-> returncode, stdout |-> stdout]
NoProc == Proc("none", 0, "")

Range(f) == { f[x] : x \in DOMAIN f }

\* the status code that stands for an httpx call that raised instead of answering
NetError == 0
\* a request to /predictions/apply: its items and the status code of the answer
Post(body, code) == [body |-> body, code |-> code]

\* the child of the timed runner: exits = it ends by itself, reads = it reads its stdin
Child(exits, reads) == [exits |-> exits, reads |-> reads]
NoChild == Child(FALSE, FALSE)

\* a call followed on its own (fetch_script, normalize_output, run_cycle): none yet
NoCall == [made |-> FALSE]

(* -------------------------- pure functions ----------------------------- *)
\* json.loads of a child's stdout: a dict as a function from its keys, or "invalid"
ValidJson(stdout) == stdout \in {"{}", "{telemetry}"}
ParseJson(stdout) ==
  IF stdout = "{telemetry}" THEN [k \in {"telemetry"} |-> "x1"] ELSE <<>>

Get(d, k, default) == IF k \in DOMAIN d THEN d[k] ELSE default

\* the JSON values that Python takes for false, written as their text
Falsy == {"null", "false", "0", "", "{}", "[]"}
\* output.get(key) or default
GetOr(output, key, default) ==
  IF Get(output, key, "null") \in Falsy THEN default ELSE output[key]

\* the value under "items" is [kind, elems]: kind "list" for a JSON list, whose
\* elements are [dict, v], dict telling a JSON object from any other value

\* a normalization that passes every element of an items list on
normalize_output_verbatim(output, default_device, entity_type) ==
  IF DOMAIN output = {} THEN <<>>
  ELSE IF "items" \in DOMAIN output /\ output["items"].kind = "list"
  THEN output["items"].elems
  ELSE IF Get(output, "deviceId", "null") \in Falsy /\ default_device = None THEN <<>>
  ELSE << [deviceId |-> GetOr(output, "deviceId", default_device),
           entityType |-> GetOr(output, "entityType", entity_type),
           telemetry |-> GetOr(output, "telemetry", "{}"),
           attributes |-> GetOr(output, "attributes", "{}")] >>

normalize_output(output, default_device, entity_type) ==
  IF DOMAIN output = {} THEN <<>>
  ELSE IF "items" \in DOMAIN output /\ output["items"].kind = "list"
  THEN SelectSeq(output["items"].elems, LAMBDA item : item.dict)
  ELSE IF Get(output, "deviceId", "null") \in Falsy /\ default_device = None THEN <<>>
  ELSE << [deviceId |-> GetOr(output, "deviceId", default_device),
           entityType |-> GetOr(output, "entityType", entity_type),
           telemetry |-> GetOr(output, "telemetry", "{}"),
           attributes |-> GetOr(output, "attributes", "{}")] >>

\* the scripts and devices run_cycle loops over, after the request's filters
FilterScripts(m, p) ==
  IF p.scripts = <<>> THEN m.scripts
  ELSE SelectSeq(m.scripts, LAMBDA s : s.name \in Range(p.scripts))
FilterDevices(m, p) ==
  IF p.deviceIds = <<>> THEN m.devices
  ELSE SelectSeq(m.devices, LAMBDA d : d \in Range(p.deviceIds))

\* the request in service: its operation, the jobId of a kill, the body of a run
Req(op, jobId, body) == [op |-> op, jobId |-> jobId, body |-> body]
NoReq == Req("none", None, NoPayload)

(* -------------------------- initial state ------------------------------ *)
Init ==
  /\ MODE \in {"server", "loop"}
  /\ mappingFile \in Mappings
  /\ RUN_LOCK = FALSE
  /\ CANCEL_EVENT = FALSE
  /\ RUN_PROC = None
  /\ procs = [t \in Threads |-> NoProc]
  /\ CURRENT_JOB_ID = None
  /\ STATUS = [status |-> "starting", enabled |-> "None", last_items |-> -1,
               last_error |-> "", running_job_id |-> None]
  /\ JOBS = <<>>
  /\ clock = 0
  /\ served = 0
  /\ ticks = 0
  /\ pc = [t \in Threads |-> IF t = HTTP THEN "idle"
                             ELSE IF t = SCHED THEN (IF MODE = "loop" THEN "sl_read" ELSE "off")
                             ELSE "unborn"]
  /\ req = NoReq
  /\ ret = [t \in Threads |-> NoResult]
  /\ exc = [t \in Threads |-> ""]
  /\ mapping = [t \in Threads |-> NoMapping]
  /\ si = [t \in Threads |-> 0]
  /\ di = [t \in Threads |-> 0]
  /\ items = [t \in Threads |-> <<>>]
  /\ posts = [t \in Threads |-> <<>>]
  /\ killedRunning = {}
  /\ killDuring = FALSE
  /\ killing = FALSE
  /\ child = NoChild
  /\ bigPayload = FALSE
  /\ spawnedAt = NoTs
  /\ start = NoTs
  /\ wake = NoTs
  /\ cache = <<>>
  /\ last = NoCall
  /\ norm = NoCall
  /\ cyc = NoCall

now_ms == clock

\* json.load of the mapping file; ok = FALSE stands for the exception it raises
read_mapping == mappingFile

\* the scripts / deviceIds body the caller of execute_cycle passes on
Filters(t) ==
  IF t = HTTP THEN req.body ELSE IF t \in DOMAIN JOBS THEN JOBS[t].payload ELSE NoPayload

(* -------------------------- run_cycle: the loops ----------------------- *)
\* a place run_cycle stops at: before a child process (rs_check), at the publish
\* call (rc_post), or in the handler of an exception an httpx call raised
Pos(p, s, d, e) == [pc |-> p, si |-> s, di |-> d, exc |-> e]

RECURSIVE ScriptPositions(_, _)
RECURSIVE DevicePositions(_, _, _)

\* for script in scripts, from index s on: fetch_script raises, returns None
\* (continue) or returns a path; a global script first fetches every device's telemetry
ScriptPositions(m, s) ==
  IF s > Len(m.scripts) THEN { Pos("rc_post", 0, 0, "") }
  ELSE { Pos("ec_except", 0, 0, "network") }
       \cup ScriptPositions(m, s + 1)
       \cup IF m.scripts[s].scope = "global"
            THEN { Pos("rs_check", s, 0, "") }
            ELSE DevicePositions(m, s, 1)

\* for dev_id, dev in devices.items(), from index d on: fetch_device_telemetry
\* raises or answers, then build_payload and run_script
DevicePositions(m, s, d) ==
  IF d > Len(m.devices) THEN ScriptPositions(m, s + 1)
  ELSE { Pos("ec_except", 0, 0, "network"), Pos("rs_check", s, d, "") }

\* the thread goes to place p; the locals of run_cycle end with run_cycle
GoTo(t, p) ==
  /\ pc' = [pc EXCEPT ![t] = p.pc]
  /\ si' = [si EXCEPT ![t] = p.si]
  /\ di' = [di EXCEPT ![t] = p.di]
  /\ exc' = [exc EXCEPT ![t] = p.exc]

\* the thread goes on at place p with mapping m and items its; outside the loops
\* (in the except handler, in the finally) the locals of run_cycle are gone
Continue(t, p, m, its) ==
  /\ GoTo(t, p)
  /\ mapping' = [mapping EXCEPT ![t] = IF p.pc \in {"rs_check", "rc_post"} THEN m ELSE NoMapping]
  /\ items' = [items EXCEPT ![t] = IF p.pc \in {"rs_check", "rc_post"} THEN its ELSE <<>>]

(* -------------------------- execute_cycle ------------------------------ *)
InCycle(t) ==
  pc[t] \in {"ec_start", "ec_read", "rs_check", "rs_spawn", "rs_cancel", "rs_poll",
             "rs_finally", "rc_post", "ec_except", "ec_finally", "ec_release"}

\* where a thread goes on when execute_cycle has returned
AfterCycle(t) ==
  IF t = HTTP THEN "idle" ELSE IF t = SCHED THEN "sl_read" ELSE "rj_update"

\* an acquire that does not test the lock: it succeeds whether or not the lock is held
acquire_unchecked(lock) == TRUE

\* RUN_LOCK.acquire(blocking=False): TRUE when the lock was free and is now taken
acquire(lock) == ~lock

\* a release that does nothing: the lock stays as it was
release_skipped(lock) == lock

\* RUN_LOCK.release(): the state of the lock afterwards
release(lock) == FALSE

\* if not RUN_LOCK.acquire(blocking=False): return {"status": "busy"}
\* (the scheduler drops the dict, the handler of /run sends it as a 409)
EcAcquire(t) ==
  /\ pc[t] = "ec_acquire"
  /\ IF acquire(RUN_LOCK)
     THEN /\ RUN_LOCK' = TRUE
          /\ pc' = [pc EXCEPT ![t] = "ec_start"]
          /\ killDuring' = FALSE
          /\ killing' = FALSE
          /\ UNCHANGED <<ret, req>>
     ELSE /\ ret' = [ret EXCEPT ![t] = IF t \in JobIds THEN Result("busy", -1, "") ELSE NoResult]
          /\ req' = IF t = HTTP THEN NoReq ELSE req
          /\ pc' = [pc EXCEPT ![t] = AfterCycle(t)]
          /\ UNCHANGED <<RUN_LOCK, killDuring, killing>>
  /\ UNCHANGED <<envVars, CANCEL_EVENT, RUN_PROC, procs, CURRENT_JOB_ID, STATUS, JOBS,
                 sideVars, exc, cycleVars, killedRunning>>

\* CANCEL_EVENT.clear(); STATUS["running_job_id"] = CURRENT_JOB_ID
EcStart(t) ==
  /\ pc[t] = "ec_start"
  /\ CANCEL_EVENT' = FALSE
  /\ STATUS' = [STATUS EXCEPT !.running_job_id = CURRENT_JOB_ID]
  /\ pc' = [pc EXCEPT ![t] = "ec_read"]
  /\ UNCHANGED <<envVars, RUN_LOCK, RUN_PROC, procs, CURRENT_JOB_ID, JOBS, sideVars, req, ret,
                 exc, cycleVars, histVars>>

\* a cycle that does not look at the predictor's enabled flag
EcReadIgnoreEnabled(t) ==
  /\ pc[t] = "ec_read"
  /\ LET m == read_mapping
         filtered == [m EXCEPT !.scripts = FilterScripts(m, Filters(t)),
                               !.devices = FilterDevices(m, Filters(t))]
     IN IF ~m.ok
        THEN /\ Continue(t, Pos("ec_except", 0, 0, "mapping"), NoMapping, <<>>)
             /\ UNCHANGED <<STATUS, ret>>
        ELSE /\ STATUS' = [STATUS EXCEPT !.enabled = "True"]
             /\ \E p \in ScriptPositions(filtered, 1) : Continue(t, p, filtered, <<>>)
             /\ UNCHANGED ret
  /\ UNCHANGED <<envVars, RUN_LOCK, CANCEL_EVENT, RUN_PROC, procs, CURRENT_JOB_ID, JOBS,
                 sideVars, req, posts, histVars>>

\* read_mapping(), the enabled test, and run_cycle up to its first child process
EcRead(t) ==
  /\ pc[t] = "ec_read"
  /\ LET m == read_mapping
         filtered == [m EXCEPT !.scripts = FilterScripts(m, Filters(t)),
                               !.devices = FilterDevices(m, Filters(t))]
     IN IF ~m.ok
        THEN /\ Continue(t, Pos("ec_except", 0, 0, "mapping"), NoMapping, <<>>)
             /\ UNCHANGED <<STATUS, ret>>
        ELSE IF ~m.enabled
        THEN /\ STATUS' = [STATUS EXCEPT !.enabled = "False", !.status = "disabled",
                                         !.last_items = 0]
             /\ ret' = [ret EXCEPT ![t] = Result("disabled", 0, "")]
             /\ Continue(t, Pos("ec_finally", 0, 0, ""), NoMapping, <<>>)
        ELSE /\ STATUS' = [STATUS EXCEPT !.enabled = "True"]
             /\ \E p \in ScriptPositions(filtered, 1) : Continue(t, p, filtered, <<>>)
             /\ UNCHANGED ret
  /\ UNCHANGED <<envVars, RUN_LOCK, CANCEL_EVENT, RUN_PROC, procs, CURRENT_JOB_ID, JOBS,
                 sideVars, req, posts, histVars>>

\* a publish step that sends the request also when there are no items
RcPostAlways(t) ==
  /\ pc[t] = "rc_post"
  /\ \/ /\ items[t] # <<>>
        /\ posts' = [posts EXCEPT ![t] = Append(posts[t], Post(items[t], NetError))]
        /\ Continue(t, Pos("ec_except", 0, 0, "network"), NoMapping, <<>>)
        /\ UNCHANGED <<STATUS, ret>>
     \/ /\ \E code \in {200, 500} :
             posts' = [posts EXCEPT ![t] = Append(posts[t], Post(items[t], code))]
        /\ STATUS' = [STATUS EXCEPT !.status = "ok", !.last_items = Len(items[t])]
        /\ ret' = [ret EXCEPT ![t] = Result("ok", Len(items[t]), "")]
        /\ Continue(t, Pos("ec_finally", 0, 0, ""), NoMapping, <<>>)
  /\ UNCHANGED <<envVars, RUN_LOCK, CANCEL_EVENT, RUN_PROC, procs, CURRENT_JOB_ID, JOBS, sideVars,
                 req, histVars>>

\* a publish step that counts the items only when the middleware answered 200
RcPostCountPublished(t) ==
  /\ pc[t] = "rc_post"
  /\ \/ /\ items[t] # <<>>
        /\ posts' = [posts EXCEPT ![t] = Append(posts[t], Post(items[t], NetError))]
        /\ Continue(t, Pos("ec_except", 0, 0, "network"), NoMapping, <<>>)
        /\ UNCHANGED <<STATUS, ret>>
     \/ /\ \E code \in {200, 500} :
             LET n == IF code = 200 THEN Len(items[t]) ELSE 0 IN
             /\ posts' = [posts EXCEPT ![t] = IF items[t] # <<>>
                                              THEN Append(posts[t], Post(items[t], code))
                                              ELSE posts[t]]
             /\ STATUS' = [STATUS EXCEPT !.status = "ok", !.last_items = n]
             /\ ret' = [ret EXCEPT ![t] = Result("ok", n, "")]
        /\ Continue(t, Pos("ec_finally", 0, 0, ""), NoMapping, <<>>)
  /\ UNCHANGED <<envVars, RUN_LOCK, CANCEL_EVENT, RUN_PROC, procs, CURRENT_JOB_ID, JOBS, sideVars,
                 req, histVars>>

\* if items: post_predictions(items); return len(items); then the ok branch.
\* The httpx call raises (first disjunct) or answers 200 or not, which
\* post_predictions turns into a boolean that run_cycle drops.
RcPost(t) ==
  /\ pc[t] = "rc_post"
  /\ \/ /\ items[t] # <<>>
        /\ posts' = [posts EXCEPT ![t] = Append(posts[t], Post(items[t], NetError))]
        /\ Continue(t, Pos("ec_except", 0, 0, "network"), NoMapping, <<>>)
        /\ UNCHANGED <<STATUS, ret>>
     \/ /\ \E code \in {200, 500} :
             posts' = [posts EXCEPT ![t] = IF items[t] # <<>>
                                           THEN Append(posts[t], Post(items[t], code))
                                           ELSE posts[t]]
        /\ STATUS' = [STATUS EXCEPT !.status = "ok", !.last_items = Len(items[t])]
        /\ ret' = [ret EXCEPT ![t] = Result("ok", Len(items[t]), "")]
        /\ Continue(t, Pos("ec_finally", 0, 0, ""), NoMapping, <<>>)
  /\ UNCHANGED <<envVars, RUN_LOCK, CANCEL_EVENT, RUN_PROC, procs, CURRENT_JOB_ID, JOBS, sideVars,
                 req, histVars>>

\* an except branch that builds the error result and records nothing in STATUS
EcExceptSilent(t) ==
  /\ pc[t] = "ec_except"
  /\ ret' = [ret EXCEPT ![t] = IF exc[t] = "killed" THEN Result("killed", -1, "")
                                ELSE Result("error", -1, exc[t])]
  /\ exc' = [exc EXCEPT ![t] = ""]
  /\ pc' = [pc EXCEPT ![t] = "ec_finally"]
  /\ UNCHANGED <<envVars, RUN_LOCK, CANCEL_EVENT, RUN_PROC, procs, CURRENT_JOB_ID, STATUS, JOBS,
                 sideVars, req, mapping, si, di, items, posts, histVars>>

\* an except branch that does not tell the killed exception from the others
EcExceptKilledAsError(t) ==
  /\ pc[t] = "ec_except"
  /\ STATUS' = [STATUS EXCEPT !.status = "error", !.last_error = exc[t]]
  /\ ret' = [ret EXCEPT ![t] = Result("error", -1, exc[t])]
  /\ exc' = [exc EXCEPT ![t] = ""]
  /\ pc' = [pc EXCEPT ![t] = "ec_finally"]
  /\ UNCHANGED <<envVars, RUN_LOCK, CANCEL_EVENT, RUN_PROC, procs, CURRENT_JOB_ID, JOBS,
                 sideVars, req, mapping, si, di, items, posts, histVars>>

\* except Exception as exc: the killed branch and the error branch
EcExcept(t) ==
  /\ pc[t] = "ec_except"
  /\ IF exc[t] = "killed"
     THEN /\ STATUS' = [STATUS EXCEPT !.status = "killed", !.last_error = "killed"]
          /\ ret' = [ret EXCEPT ![t] = Result("killed", -1, "")]
     ELSE /\ STATUS' = [STATUS EXCEPT !.status = "error", !.last_error = exc[t]]
          /\ ret' = [ret EXCEPT ![t] = Result("error", -1, exc[t])]
  /\ exc' = [exc EXCEPT ![t] = ""]
  /\ pc' = [pc EXCEPT ![t] = "ec_finally"]
  /\ UNCHANGED <<envVars, RUN_LOCK, CANCEL_EVENT, RUN_PROC, procs, CURRENT_JOB_ID, JOBS,
                 sideVars, req, mapping, si, di, items, posts, histVars>>

\* the finally block without CANCEL_EVENT.clear(): the flag stays as it is
EcFinallyKeepFlag(t) ==
  /\ pc[t] = "ec_finally"
  /\ STATUS' = [STATUS EXCEPT !.running_job_id = None]
  /\ pc' = [pc EXCEPT ![t] = "ec_release"]
  /\ UNCHANGED <<envVars, RUN_LOCK, CANCEL_EVENT, RUN_PROC, procs, CURRENT_JOB_ID, JOBS, sideVars,
                 req, ret, exc, cycleVars, histVars>>

\* finally: STATUS["running_job_id"] = None; CANCEL_EVENT.clear()
EcFinally(t) ==
  /\ pc[t] = "ec_finally"
  /\ STATUS' = [STATUS EXCEPT !.running_job_id = None]
  /\ CANCEL_EVENT' = FALSE
  /\ pc' = [pc EXCEPT ![t] = "ec_release"]
  /\ UNCHANGED <<envVars, RUN_LOCK, RUN_PROC, procs, CURRENT_JOB_ID, JOBS, sideVars, req, ret,
                 exc, cycleVars, histVars>>

\* finally: RUN_LOCK.release(), then the return to the caller: the scheduler drops
\* the dict, the handler of /run sends it
EcRelease(t) ==
  /\ pc[t] = "ec_release"
  /\ RUN_LOCK' = release(RUN_LOCK)
  /\ pc' = [pc EXCEPT ![t] = AfterCycle(t)]
  /\ posts' = [posts EXCEPT ![t] = <<>>]
  /\ ret' = [ret EXCEPT ![t] = IF t \in JobIds THEN ret[t] ELSE NoResult]
  /\ req' = IF t = HTTP THEN NoReq ELSE req
  /\ killDuring' = FALSE
  /\ killing' = FALSE
  /\ UNCHANGED <<envVars, CANCEL_EVENT, RUN_PROC, procs, CURRENT_JOB_ID, STATUS, JOBS, sideVars,
                 exc, mapping, si, di, items, killedRunning>>

(* -------------------------- run_script --------------------------------- *)
\* Popen.terminate(): a process that has already exited is left as it is
Terminate(p) == IF p.state = "alive" THEN Proc("terminated", -15, "") ELSE p

\* the default device id of the invocation the thread is at
DefaultDevice(t) ==
  IF di[t] = 0 THEN mapping[t].globalDevice ELSE mapping[t].devices[di[t]]

\* where run_cycle can go on after the invocation the thread is at
AfterInvocation(t) ==
  IF di[t] = 0 THEN ScriptPositions(mapping[t], si[t] + 1)
  ELSE DevicePositions(mapping[t], si[t], di[t] + 1)

\* if CANCEL_EVENT.is_set(): raise RuntimeError("killed")
RsCheck(t) ==
  /\ pc[t] = "rs_check"
  /\ IF CANCEL_EVENT
     THEN Continue(t, Pos("ec_except", 0, 0, "killed"), NoMapping, <<>>)
     ELSE pc' = [pc EXCEPT ![t] = "rs_spawn"] /\ UNCHANGED <<exc, mapping, si, di, items>>
  /\ UNCHANGED <<envVars, sharedVars, sideVars, req, ret, posts, histVars>>

\* RUN_PROC = subprocess.Popen(...); the payload is written to its stdin
RsSpawn(t) ==
  /\ pc[t] = "rs_spawn"
  /\ RUN_PROC' = t
  /\ procs' = [procs EXCEPT ![t] = Proc("alive", 0, "")]
  /\ pc' = [pc EXCEPT ![t] = "rs_cancel"]
  /\ UNCHANGED <<envVars, RUN_LOCK, CANCEL_EVENT, CURRENT_JOB_ID, STATUS, JOBS, sideVars, req, ret,
                 exc, cycleVars, histVars>>

\* while True: if CANCEL_EVENT.is_set(): RUN_PROC.terminate(); raise RuntimeError("killed")
RsCancel(t) ==
  /\ pc[t] = "rs_cancel"
  /\ IF CANCEL_EVENT
     THEN /\ procs' = IF RUN_PROC = None THEN procs
                      ELSE [procs EXCEPT ![RUN_PROC] = Terminate(procs[RUN_PROC])]
          /\ exc' = [exc EXCEPT ![t] = "killed"]
          /\ pc' = [pc EXCEPT ![t] = "rs_finally"]
     ELSE /\ pc' = [pc EXCEPT ![t] = "rs_poll"]
          /\ UNCHANGED <<procs, exc>>
  /\ UNCHANGED <<envVars, RUN_LOCK, CANCEL_EVENT, RUN_PROC, CURRENT_JOB_ID, STATUS, JOBS, sideVars,
                 req, ret, cycleVars, histVars>>

\* if RUN_PROC.poll() is not None: break; if elapsed > timeout_sec: terminate and
\* raise RuntimeError("timeout"); time.sleep(0.2)
RsPoll(t) ==
  /\ pc[t] = "rs_poll"
  /\ IF RUN_PROC = None
     THEN /\ exc' = [exc EXCEPT ![t] = "attribute"]
          /\ pc' = [pc EXCEPT ![t] = "rs_finally"]
          /\ UNCHANGED procs
     ELSE IF procs[RUN_PROC].state # "alive"
     THEN /\ pc' = [pc EXCEPT ![t] = "rs_finally"]
          /\ UNCHANGED <<procs, exc>>
     ELSE \/ /\ procs' = [procs EXCEPT ![RUN_PROC] = Terminate(procs[RUN_PROC])]
             /\ exc' = [exc EXCEPT ![t] = "timeout"]
             /\ pc' = [pc EXCEPT ![t] = "rs_finally"]
          \/ /\ pc' = [pc EXCEPT ![t] = "rs_cancel"]
             /\ UNCHANGED <<procs, exc>>
  /\ UNCHANGED <<envVars, RUN_LOCK, CANCEL_EVENT, RUN_PROC, CURRENT_JOB_ID, STATUS, JOBS, sideVars,
                 req, ret, cycleVars, histVars>>

\* a run_script whose finally block leaves the handle in place
RsFinallyKeepHandle(t) ==
  /\ pc[t] = "rs_finally"
  /\ procs' = [procs EXCEPT ![t] = NoProc]
  /\ IF exc[t] # ""
     THEN Continue(t, Pos("ec_except", 0, 0, exc[t]), NoMapping, <<>>)
     ELSE \E p \in AfterInvocation(t) : Continue(t, p, mapping[t], items[t])
  /\ UNCHANGED <<envVars, RUN_LOCK, CANCEL_EVENT, RUN_PROC, CURRENT_JOB_ID, STATUS, JOBS, sideVars,
                 req, ret, posts, histVars>>

\* after the loop: stdout.read(), the returncode test, json.loads; finally:
\* RUN_PROC = None; then items.extend(normalize_output(output or {}, default, "DEVICE"))
\* and run_cycle up to its next child process
RsFinally(t) ==
  /\ pc[t] = "rs_finally"
  /\ RUN_PROC' = None
  /\ procs' = [procs EXCEPT ![t] = NoProc]
  /\ IF exc[t] # ""
     THEN Continue(t, Pos("ec_except", 0, 0, exc[t]), NoMapping, <<>>)
     ELSE IF RUN_PROC = None
     THEN Continue(t, Pos("ec_except", 0, 0, "attribute"), NoMapping, <<>>)
     ELSE IF procs[RUN_PROC].returncode # 0
     THEN \E p \in AfterInvocation(t) : Continue(t, p, mapping[t], items[t])
     ELSE IF ~ValidJson(procs[RUN_PROC].stdout)
     THEN Continue(t, Pos("ec_except", 0, 0, "json"), NoMapping, <<>>)
     ELSE \E p \in AfterInvocation(t) :
            Continue(t, p, mapping[t],
                     items[t] \o normalize_output(ParseJson(procs[RUN_PROC].stdout),
                                                  DefaultDevice(t), "DEVICE"))
  /\ UNCHANGED <<envVars, RUN_LOCK, CANCEL_EVENT, CURRENT_JOB_ID, STATUS, JOBS, sideVars, req, ret,
                 posts, histVars>>

\* the child process ends by itself: an exit code and what it wrote to stdout
ProcExit(t) ==
  /\ procs[t].state = "alive"
  /\ \E rc \in {0, 1}, out \in Stdouts :
       /\ rc = 1 => out = ""
       /\ procs' = [procs EXCEPT ![t] = Proc("exited", rc, out)]
  /\ UNCHANGED <<envVars, RUN_LOCK, CANCEL_EVENT, RUN_PROC, CURRENT_JOB_ID, STATUS, JOBS, sideVars,
                 pc, req, ret, exc, cycleVars, histVars>>

(* -------------------------- job registry ------------------------------- *)
Job(status, created_ts, started_ts, finished_ts, result, pl) ==
  [status |-> status, created_ts |-> created_ts, started_ts |-> started_ts,
   finished_ts |-> finished_ts, result |-> result, payload |-> pl]

\* job.update(kwargs) under JOBS_LOCK; an id that is not in the registry changes nothing
update_job(jobs, job_id, kwargs) ==
  IF job_id \notin DOMAIN jobs THEN jobs
  ELSE [jobs EXCEPT ![job_id] =
          [f \in DOMAIN jobs[job_id] |->
             IF f \in DOMAIN kwargs THEN kwargs[f] ELSE jobs[job_id][f]]]

(* -------------------------- control API -------------------------------- *)
\* POST /run: the cycle runs in the server thread
ReqRun ==
  /\ pc[HTTP] = "idle"
  /\ served < MaxRequests
  /\ served' = served + 1
  /\ \E p \in Payloads : req' = Req("run", None, p)
  /\ pc' = [pc EXCEPT ![HTTP] = "ec_acquire"]
  /\ UNCHANGED <<MODE, mappingFile, ticks, sharedVars, sideVars, ret, exc, cycleVars, histVars>>

\* a /run_async handler that takes a submission only while no cycle holds the lock
ReqRunAsyncWhenFree ==
  /\ pc[HTTP] = "idle"
  /\ served < MaxRequests
  /\ served' = served + 1
  /\ Len(JOBS) < MaxJobs
  /\ ~RUN_LOCK
  /\ LET job_id == Len(JOBS) + 1 IN
       \E p \in Payloads :
         /\ JOBS' = Append(JOBS, Job("queued", now_ms, NoTs, NoTs, NoResult, p))
         /\ pc' = [pc EXCEPT ![job_id] = "rj_get"]
  /\ UNCHANGED <<MODE, mappingFile, ticks, RUN_LOCK, CANCEL_EVENT, RUN_PROC, procs,
                 CURRENT_JOB_ID, STATUS, sideVars, req, ret, exc, cycleVars, histVars>>

\* POST /run_async: create_job, Thread(target=run_job).start(), 202 with the job id
ReqRunAsync ==
  /\ pc[HTTP] = "idle"
  /\ served < MaxRequests
  /\ served' = served + 1
  /\ Len(JOBS) < MaxJobs
  /\ LET job_id == Len(JOBS) + 1 IN
       \E p \in Payloads :
         /\ JOBS' = Append(JOBS, Job("queued", now_ms, NoTs, NoTs, NoResult, p))
         /\ pc' = [pc EXCEPT ![job_id] = "rj_get"]
  /\ UNCHANGED <<MODE, mappingFile, ticks, RUN_LOCK, CANCEL_EVENT, RUN_PROC, procs,
                 CURRENT_JOB_ID, STATUS, sideVars, req, ret, exc, cycleVars, histVars>>

\* POST /kill: request_kill starts with CANCEL_EVENT.set()
ReqKill ==
  /\ pc[HTTP] = "idle"
  /\ served < MaxRequests
  /\ served' = served + 1
  /\ \E id \in DOMAIN JOBS \cup {None, UnknownId} :
       /\ req' = Req("kill", id, NoPayload)
       /\ pc' = [pc EXCEPT ![HTTP] = IF id = None THEN "k_read" ELSE "k_job"]
  /\ CANCEL_EVENT' = TRUE
  /\ killDuring' = RUN_LOCK
  /\ UNCHANGED <<MODE, mappingFile, ticks, RUN_LOCK, RUN_PROC, procs, CURRENT_JOB_ID, STATUS,
                 JOBS, sideVars, ret, exc, cycleVars, killedRunning, killing>>

\* if job_id: update_job(job_id, status="canceled", finished_ts=now_ms(), result=...)
KJob ==
  /\ pc[HTTP] = "k_job"
  /\ JOBS' = update_job(JOBS, req.jobId,
                        [status |-> "canceled", finished_ts |-> now_ms,
                         result |-> Result("canceled", -1, "")])
  /\ killedRunning' = IF /\ req.jobId \in DOMAIN JOBS
                         /\ JOBS[req.jobId].status = "running"
                         /\ InCycle(req.jobId)
                      THEN killedRunning \cup {req.jobId} ELSE killedRunning
  /\ req' = Req("kill", None, NoPayload)
  /\ pc' = [pc EXCEPT ![HTTP] = "k_read"]
  /\ UNCHANGED <<envVars, RUN_LOCK, CANCEL_EVENT, RUN_PROC, procs, CURRENT_JOB_ID, STATUS, sideVars,
                 ret, exc, cycleVars, killDuring, killing>>

\* if RUN_PROC and ...: the first load of the global
KRead ==
  /\ pc[HTTP] = "k_read"
  /\ pc' = [pc EXCEPT ![HTTP] = IF RUN_PROC # None THEN "k_poll" ELSE "k_clear"]
  /\ UNCHANGED <<envVars, sharedVars, sideVars, req, ret, exc, cycleVars, histVars>>

\* ... and RUN_PROC.poll() is None: the second load; on None the AttributeError
\* leaves request_kill and the handler, and no answer is sent
KPoll ==
  /\ pc[HTTP] = "k_poll"
  /\ IF RUN_PROC = None
     THEN /\ pc' = [pc EXCEPT ![HTTP] = "idle"]
          /\ req' = NoReq
     ELSE /\ pc' = [pc EXCEPT ![HTTP] = IF procs[RUN_PROC].state = "alive" THEN "k_term"
                                        ELSE "k_clear"]
          /\ UNCHANGED req
  /\ UNCHANGED <<envVars, sharedVars, sideVars, ret, exc, cycleVars, histVars>>

\* try: RUN_PROC.terminate() except Exception: pass; return {"status": "killing"}
KTerm ==
  /\ pc[HTTP] = "k_term"
  /\ procs' = IF RUN_PROC = None THEN procs
              ELSE [procs EXCEPT ![RUN_PROC] = Terminate(procs[RUN_PROC])]
  /\ pc' = [pc EXCEPT ![HTTP] = "idle"]
  /\ req' = NoReq
  /\ killing' = RUN_LOCK
  /\ UNCHANGED <<envVars, RUN_LOCK, CANCEL_EVENT, RUN_PROC, CURRENT_JOB_ID, STATUS, JOBS, sideVars,
                 ret, exc, cycleVars, killedRunning, killDuring>>

\* CANCEL_EVENT.clear(); return {"status": "idle"}
KClear ==
  /\ pc[HTTP] = "k_clear"
  /\ CANCEL_EVENT' = FALSE
  /\ pc' = [pc EXCEPT ![HTTP] = "idle"]
  /\ req' = NoReq
  /\ UNCHANGED <<envVars, RUN_LOCK, RUN_PROC, procs, CURRENT_JOB_ID, STATUS, JOBS, sideVars, ret,
                 exc, cycleVars, histVars>>

(* -------------------------- run_job ------------------------------------ *)
\* job = get_job(job_id); if job.get("status") == "canceled": return
RjGet(j) ==
  /\ pc[j] = "rj_get"
  /\ pc' = [pc EXCEPT ![j] = IF JOBS[j].status = "canceled" THEN "done" ELSE "rj_setcur"]
  /\ UNCHANGED <<envVars, sharedVars, sideVars, req, ret, exc, cycleVars, histVars>>

\* CURRENT_JOB_ID = job_id
RjSetCur(j) ==
  /\ pc[j] = "rj_setcur"
  /\ CURRENT_JOB_ID' = j
  /\ pc' = [pc EXCEPT ![j] = "rj_running"]
  /\ UNCHANGED <<envVars, RUN_LOCK, CANCEL_EVENT, RUN_PROC, procs, STATUS, JOBS, sideVars, req, ret,
                 exc, cycleVars, histVars>>

\* update_job(job_id, status="running", started_ts=now_ms()), then execute_cycle
RjRunning(j) ==
  /\ pc[j] = "rj_running"
  /\ JOBS' = update_job(JOBS, j, [status |-> "running", started_ts |-> now_ms])
  /\ pc' = [pc EXCEPT ![j] = "ec_acquire"]
  /\ UNCHANGED <<envVars, RUN_LOCK, CANCEL_EVENT, RUN_PROC, procs, CURRENT_JOB_ID, STATUS, sideVars,
                 req, ret, exc, cycleVars, histVars>>

\* status="done" if result.get("status") == "ok" else result.get("status")
JobStatusOf(result) == IF result.status = "ok" THEN "done" ELSE result.status

\* update_job(job_id, status=..., result=result, finished_ts=now_ms())
RjUpdate(j) ==
  /\ pc[j] = "rj_update"
  /\ JOBS' = update_job(JOBS, j, [status |-> JobStatusOf(ret[j]), result |-> ret[j],
                                  finished_ts |-> now_ms])
  /\ pc' = [pc EXCEPT ![j] = "rj_finally"]
  /\ ret' = [ret EXCEPT ![j] = NoResult]
  /\ UNCHANGED <<envVars, RUN_LOCK, CANCEL_EVENT, RUN_PROC, procs, CURRENT_JOB_ID, STATUS, sideVars,
                 req, exc, cycleVars, histVars>>

\* finally: CURRENT_JOB_ID = None
RjFinally(j) ==
  /\ pc[j] = "rj_finally"
  /\ CURRENT_JOB_ID' = None
  /\ pc' = [pc EXCEPT ![j] = "done"]
  /\ UNCHANGED <<envVars, RUN_LOCK, CANCEL_EVENT, RUN_PROC, procs, STATUS, JOBS, sideVars, req, ret,
                 exc, cycleVars, histVars>>

(* -------------------------- scheduler_loop ----------------------------- *)
\* read_mapping() of the loop: a failure is written to STATUS; then execute_cycle()
SlRead ==
  /\ pc[SCHED] = "sl_read"
  /\ ticks < MaxTicks
  /\ ticks' = ticks + 1
  /\ LET m == read_mapping IN
       STATUS' = IF m.ok THEN STATUS
                 ELSE [STATUS EXCEPT !.status = "error", !.last_error = "mapping"]
  /\ pc' = [pc EXCEPT ![SCHED] = "ec_acquire"]
  /\ UNCHANGED <<MODE, mappingFile, served, RUN_LOCK, CANCEL_EVENT, RUN_PROC, procs,
                 CURRENT_JOB_ID, JOBS, sideVars, req, ret, exc, cycleVars, histVars>>

(* -------------------------- specification ------------------------------ *)
\* do_GET /health and /status: the handler reads START_TS and STATUS, answers
\* and changes nothing; it runs on the one thread of HTTPServer.serve_forever, which takes
\* a request only when it is not inside another handler
DoGet ==
  /\ pc[HTTP] = "idle"
  /\ UNCHANGED vars

Cycle(t) ==
  \/ EcAcquire(t) \/ EcStart(t) \/ EcRead(t) \/ RcPost(t) \/ EcExcept(t) \/ EcFinally(t)
  \/ EcRelease(t)
  \/ RsCheck(t) \/ RsSpawn(t) \/ RsCancel(t) \/ RsPoll(t) \/ RsFinally(t)
  \/ ProcExit(t)

Next ==
  \/ \E t \in Threads : Cycle(t)
  \/ DoGet
  \/ ReqRun \/ ReqRunAsync \/ ReqKill \/ KJob \/ KRead \/ KPoll \/ KTerm \/ KClear
  \/ \E j \in JobIds : RjGet(j) \/ RjSetCur(j) \/ RjRunning(j) \/ RjUpdate(j) \/ RjFinally(j)
  \/ SlRead

Spec == Init /\ [][Next]_vars

(* -------------------------- run_script with its clock ------------------ *)
\* The poll loop of run_script against time.time().  One unit of the clock is one
\* sleep of the loop; the statements of the loop take no time, the sleep takes
\* exactly its length, and time passes only while the runner sleeps or is
\* blocked in a system call.
SleepTicks == 1       \* time.sleep(0.2)
MaxRunTicks == 5      \* maxRunSec of the mapping, 1 s, in sleeps of 0.2 s
MaxClock == 8         \* the clock stops here

\* the thread whose cycle is observed: the scheduler's
Runner == SCHED

EnabledMapping == CHOOSE m \in Mappings : m.ok /\ m.enabled

\* the scheduler's cycle has read the mapping and stands before the Popen of its
\* first script
InitRunner ==
  /\ MODE = "loop"
  /\ mappingFile = EnabledMapping
  /\ RUN_LOCK = TRUE
  /\ CANCEL_EVENT = FALSE
  /\ RUN_PROC = None
  /\ procs = [t \in Threads |-> NoProc]
  /\ CURRENT_JOB_ID = None
  /\ STATUS = [status |-> "starting", enabled |-> "True", last_items |-> -1,
               last_error |-> "", running_job_id |-> None]
  /\ JOBS = <<>>
  /\ clock = 0
  /\ served = 0
  /\ ticks = 1
  /\ pc = [t \in Threads |-> IF t = HTTP THEN "idle"
                             ELSE IF t = Runner THEN "rs_spawn" ELSE "unborn"]
  /\ req = NoReq
  /\ ret = [t \in Threads |-> NoResult]
  /\ exc = [t \in Threads |-> ""]
  /\ mapping = [t \in Threads |-> IF t = Runner THEN EnabledMapping ELSE NoMapping]
  /\ si = [t \in Threads |-> IF t = Runner THEN 1 ELSE 0]
  /\ di = [t \in Threads |-> 0]
  /\ items = [t \in Threads |-> <<>>]
  /\ posts = [t \in Threads |-> <<>>]
  /\ killedRunning = {}
  /\ killDuring = FALSE
  /\ killing = FALSE
  /\ child = NoChild
  /\ bigPayload \in BOOLEAN
  /\ spawnedAt = NoTs
  /\ start = NoTs
  /\ wake = NoTs
  /\ cache = <<>>
  /\ last = NoCall
  /\ norm = NoCall
  /\ cyc = NoCall

\* RUN_PROC = subprocess.Popen(...)
RsSpawnT(t) ==
  /\ pc[t] = "rs_spawn"
  /\ RUN_PROC' = t
  /\ procs' = [procs EXCEPT ![t] = Proc("alive", 0, "")]
  /\ \E e, r \in BOOLEAN : child' = Child(e, r)
  /\ spawnedAt' = clock
  /\ pc' = [pc EXCEPT ![t] = "rs_write"]
  /\ UNCHANGED <<envVars, RUN_LOCK, CANCEL_EVENT, CURRENT_JOB_ID, STATUS, JOBS, clock,
                 bigPayload, start, wake, cacheVars, callVars, req, ret, exc, cycleVars, histVars>>

\* the write to the pipe waits while the pipe is full and the child is alive
WriteBlocked(t) ==
  procs[t].state = "alive" /\ bigPayload /\ ~child.reads

\* RUN_PROC.stdin.write(json.dumps(payload)); RUN_PROC.stdin.close(); start = time.time()
\* (a BrokenPipeError when the child is gone)
RsWriteT(t) ==
  /\ pc[t] = "rs_write"
  /\ ~WriteBlocked(t)
  /\ IF procs[t].state # "alive"
     THEN /\ exc' = [exc EXCEPT ![t] = "pipe"]
          /\ pc' = [pc EXCEPT ![t] = "rs_finally"]
          /\ UNCHANGED start
     ELSE /\ start' = clock
          /\ pc' = [pc EXCEPT ![t] = "rs_cancel"]
          /\ UNCHANGED exc
  /\ UNCHANGED <<envVars, sharedVars, clock, child, bigPayload, spawnedAt, wake, cacheVars, callVars,
                 req, ret, cycleVars, histVars>>

\* while True: if CANCEL_EVENT.is_set(): RUN_PROC.terminate(); raise RuntimeError("killed")
RsCancelT(t) ==
  /\ pc[t] = "rs_cancel"
  /\ IF CANCEL_EVENT
     THEN /\ procs' = [procs EXCEPT ![t] = Terminate(procs[t])]
          /\ exc' = [exc EXCEPT ![t] = "killed"]
          /\ pc' = [pc EXCEPT ![t] = "rs_finally"]
     ELSE /\ pc' = [pc EXCEPT ![t] = "rs_poll"]
          /\ UNCHANGED <<procs, exc>>
  /\ UNCHANGED <<envVars, RUN_LOCK, CANCEL_EVENT, RUN_PROC, CURRENT_JOB_ID, STATUS, JOBS,
                 sideVars, req, ret, cycleVars, histVars>>

\* if RUN_PROC.poll() is not None: break
\* if (time.time() - start) > timeout_sec: RUN_PROC.terminate(); raise RuntimeError("timeout")
\* time.sleep(0.2)
RsPollT(t) ==
  /\ pc[t] = "rs_poll"
  /\ IF procs[t].state # "alive"
     THEN /\ pc' = [pc EXCEPT ![t] = "rs_finally"]
          /\ UNCHANGED <<procs, exc, wake>>
     ELSE IF clock - start > MaxRunTicks
     THEN /\ procs' = [procs EXCEPT ![t] = Terminate(procs[t])]
          /\ exc' = [exc EXCEPT ![t] = "timeout"]
          /\ pc' = [pc EXCEPT ![t] = "rs_finally"]
          /\ UNCHANGED wake
     ELSE /\ wake' = clock + SleepTicks
          /\ pc' = [pc EXCEPT ![t] = "rs_sleep"]
          /\ UNCHANGED <<procs, exc>>
  /\ UNCHANGED <<envVars, RUN_LOCK, CANCEL_EVENT, RUN_PROC, CURRENT_JOB_ID, STATUS, JOBS,
                 clock, child, bigPayload, spawnedAt, start, cacheVars, callVars, req, ret, cycleVars,
                 histVars>>

\* the sleep is over: back to the head of the loop
RsWakeT(t) ==
  /\ pc[t] = "rs_sleep"
  /\ clock >= wake
  /\ pc' = [pc EXCEPT ![t] = "rs_cancel"]
  /\ UNCHANGED <<envVars, sharedVars, sideVars, req, ret, exc, cycleVars, histVars>>

\* time passes while the runner sleeps or waits in the write
Tick ==
  /\ clock < MaxClock
  /\ \/ pc[Runner] = "rs_sleep" /\ clock < wake
     \/ pc[Runner] = "rs_write" /\ WriteBlocked(Runner)
  /\ clock' = clock + 1
  /\ UNCHANGED <<envVars, sharedVars, runnerVars, cacheVars, callVars, pc, req, ret, exc, cycleVars,
                 histVars>>

\* the child ends by itself; a child that reads its stdin does so up to the end of
\* the input, so not before the runner has closed the pipe
ChildExitT ==
  /\ procs[Runner].state = "alive"
  /\ child.exits
  /\ child.reads => pc[Runner] # "rs_write"
  /\ \E rc \in {0, 1}, out \in Stdouts :
       /\ rc = 1 => out = ""
       /\ procs' = [procs EXCEPT ![Runner] = Proc("exited", rc, out)]
  /\ UNCHANGED <<envVars, RUN_LOCK, CANCEL_EVENT, RUN_PROC, CURRENT_JOB_ID, STATUS, JOBS,
                 sideVars, pc, req, ret, exc, cycleVars, histVars>>

NextRunner ==
  \/ RsSpawnT(Runner) \/ RsWriteT(Runner) \/ RsCancelT(Runner) \/ RsPollT(Runner)
  \/ RsWakeT(Runner)
  \/ Tick \/ ChildExitT
  \/ ReqKill \/ KJob \/ KRead \/ KPoll \/ KTerm \/ KClear

SpecRunner == InitRunner /\ [][NextRunner]_vars

(* -------------------------- fetch_script and its cache ----------------- *)
\* names, refs and paths are strings, taken as sequences of their characters
Names == { <<"a">>, <<"b">> }
Refs == { <<>>, <<"r">> }
Paths == { <<>>, <<"d", "/", "p">>, <<"d", "_", "p">> }
Repos == { "", "https://github.com/org/repo", " https://github.com/org/repo",
           "https://github.com/evil/repo" }
\* predictor.github.allowlist of the mapping
Allowlists == { {"https://github.com/org/repo"} }
Contents == { "c1", "c2" }
Shas == { "", "<sha256>", "h1" }

\* a script descriptor of the mapping
Descriptor(name, repo, ref, path, sha) ==
  [name |-> name, repo |-> repo, ref |-> ref, path |-> path, sha256 |-> sha]
Descriptors ==
  { Descriptor(n, rp, rf, pt, sh) :
      n \in Names, rp \in Repos, rf \in Refs, pt \in Paths, sh \in Shas }

\* the answer of the artifact host: a status code and a body, or no answer at all
Response(code, content) == [code |-> code, content |-> content]
NoResponse == Response(NetError, "")
Responses == { Response(200, c) : c \in Contents } \cup { Response(404, ""), NoResponse }

\* str.strip()
Strip(str) == IF str = " https://github.com/org/repo" THEN "https://github.com/org/repo" ELSE str

allow_repo(repo, allowlist) == Strip(repo) # "" /\ Strip(repo) \in allowlist

\* the raw URL of a github repository, "" for any other string
raw_github_url(repo, ref, path) ==
  IF repo = "https://github.com/org/repo" THEN <<"raw.githubusercontent.com", "org/repo", ref, path>>
  ELSE <<>>

sha256_hex(content) == IF content = "c1" THEN "h1" ELSE "h2"

\* path.replace('/', '_')
Replace(path) == [i \in DOMAIN path |-> IF path[i] = "/" THEN "_" ELSE path[i]]

\* f"{name}_{ref}_{path.replace('/', '_')}"
safe_name(script) == script.name \o <<"_">> \o script.ref \o <<"_">> \o Replace(script.path)

\* local_path.write_bytes(content)
write_bytes(files, local_path, content) ==
  [f \in DOMAIN files \cup {local_path} |-> IF f = local_path THEN content ELSE files[f]]

\* what fetch_script returns (a path or None) or the exception of the httpx call
Path(local_path) == [kind |-> "path", path |-> local_path]
NoPath == [kind |-> "none", path |-> <<>>]
Raised == [kind |-> "raised", path |-> <<>>]
\* a call's result, the files afterwards, and whether it sent a GET
Out(res, files, net) == [result |-> res, cache |-> files, fetched |-> net]

\* fetch_script without the comparison of the digest
fetch_script_unverified(script, allowlist, refresh, files, resp) ==
  LET local_path == safe_name(script)
      url == raw_github_url(script.repo, script.ref, script.path)
      expected_sha == script.sha256
  IN IF ~allow_repo(script.repo, allowlist) THEN Out(NoPath, files, FALSE)
     ELSE IF script.ref = <<>> \/ script.path = <<>> THEN Out(NoPath, files, FALSE)
     ELSE IF local_path \in DOMAIN files /\ ~refresh THEN Out(Path(local_path), files, FALSE)
     ELSE IF url = <<>> THEN Out(NoPath, files, FALSE)
     ELSE IF resp.code = NetError THEN Out(Raised, files, TRUE)
     ELSE IF resp.code # 200 THEN Out(NoPath, files, TRUE)
     ELSE Out(Path(local_path), write_bytes(files, local_path, resp.content), TRUE)

\* fetch_script without the test for a cached file
fetch_script_uncached(script, allowlist, refresh, files, resp) ==
  LET local_path == safe_name(script)
      url == raw_github_url(script.repo, script.ref, script.path)
      expected_sha == script.sha256
  IN IF ~allow_repo(script.repo, allowlist) THEN Out(NoPath, files, FALSE)
     ELSE IF script.ref = <<>> \/ script.path = <<>> THEN Out(NoPath, files, FALSE)
     ELSE IF url = <<>> THEN Out(NoPath, files, FALSE)
     ELSE IF resp.code = NetError THEN Out(Raised, files, TRUE)
     ELSE IF resp.code # 200 THEN Out(NoPath, files, TRUE)
     ELSE IF /\ expected_sha # "" /\ expected_sha # "<sha256>"
             /\ sha256_hex(resp.content) # expected_sha
     THEN Out(NoPath, files, TRUE)
     ELSE Out(Path(local_path), write_bytes(files, local_path, resp.content), TRUE)

\* fetch_script with the test for a cached file before the policy tests
fetch_script_cache_first(script, allowlist, refresh, files, resp) ==
  LET local_path == safe_name(script)
      url == raw_github_url(script.repo, script.ref, script.path)
      expected_sha == script.sha256
  IN IF local_path \in DOMAIN files /\ ~refresh THEN Out(Path(local_path), files, FALSE)
     ELSE IF ~allow_repo(script.repo, allowlist) THEN Out(NoPath, files, FALSE)
     ELSE IF script.ref = <<>> \/ script.path = <<>> THEN Out(NoPath, files, FALSE)
     ELSE IF url = <<>> THEN Out(NoPath, files, FALSE)
     ELSE IF resp.code = NetError THEN Out(Raised, files, TRUE)
     ELSE IF resp.code # 200 THEN Out(NoPath, files, TRUE)
     ELSE IF /\ expected_sha # "" /\ expected_sha # "<sha256>"
             /\ sha256_hex(resp.content) # expected_sha
     THEN Out(NoPath, files, TRUE)
     ELSE Out(Path(local_path), write_bytes(files, local_path, resp.content), TRUE)

\* fetch_script without the test of the status code
fetch_script_any_status(script, allowlist, refresh, files, resp) ==
  LET local_path == safe_name(script)
      url == raw_github_url(script.repo, script.ref, script.path)
      expected_sha == script.sha256
  IN IF ~allow_repo(script.repo, allowlist) THEN Out(NoPath, files, FALSE)
     ELSE IF script.ref = <<>> \/ script.path = <<>> THEN Out(NoPath, files, FALSE)
     ELSE IF local_path \in DOMAIN files /\ ~refresh THEN Out(Path(local_path), files, FALSE)
     ELSE IF url = <<>> THEN Out(NoPath, files, FALSE)
     ELSE IF resp.code = NetError THEN Out(Raised, files, TRUE)
     ELSE IF /\ expected_sha # "" /\ expected_sha # "<sha256>"
             /\ sha256_hex(resp.content) # expected_sha
     THEN Out(NoPath, files, TRUE)
     ELSE Out(Path(local_path), write_bytes(files, local_path, resp.content), TRUE)

\* fetch_script(script, allowlist, refresh) on the files of CACHE_DIR, the artifact host
\* answering resp if it is asked
fetch_script(script, allowlist, refresh, files, resp) ==
  LET local_path == safe_name(script)
      url == raw_github_url(script.repo, script.ref, script.path)
      expected_sha == script.sha256
  IN IF ~allow_repo(script.repo, allowlist) THEN Out(NoPath, files, FALSE)
     ELSE IF script.ref = <<>> \/ script.path = <<>> THEN Out(NoPath, files, FALSE)
     ELSE IF local_path \in DOMAIN files /\ ~refresh THEN Out(Path(local_path), files, FALSE)
     ELSE IF url = <<>> THEN Out(NoPath, files, FALSE)
     ELSE IF resp.code = NetError THEN Out(Raised, files, TRUE)
     ELSE IF resp.code # 200 THEN Out(NoPath, files, TRUE)
     ELSE IF /\ expected_sha # "" /\ expected_sha # "<sha256>"
             /\ sha256_hex(resp.content) # expected_sha
     THEN Out(NoPath, files, TRUE)
     ELSE Out(Path(local_path), write_bytes(files, local_path, resp.content), TRUE)

\* one call of fetch_script, by the cycle in flight
FetchScript ==
  /\ \E script \in Descriptors, allowlist \in Allowlists, refresh \in BOOLEAN, resp \in Responses :
       LET out == fetch_script(script, allowlist, refresh, cache, resp) IN
         /\ cache' = out.cache
         /\ last' = [made |-> TRUE, script |-> script, allowlist |-> allowlist,
                     refresh |-> refresh, fetched |-> out.fetched,
                     response |-> IF out.fetched THEN resp ELSE NoResponse,
                     result |-> out.result]
  /\ UNCHANGED <<envVars, sharedVars, clock, runnerVars, callVars, pc, req, ret, exc,
                 cycleVars, histVars>>

InitCache == Init /\ MODE = "server" /\ mappingFile = EnabledMapping

NextCache == FetchScript

SpecCache == InitCache /\ [][NextCache]_vars

(* -------------------------- normalize_output on its own ----------------- *)
\* the longest items list of an output
MaxItems == 2
\* the elements of an items list: two JSON objects and a value that is none
Elements == {[dict |-> TRUE, v |-> "a"], [dict |-> TRUE, v |-> "b"], [dict |-> FALSE, v |-> "x"]}
\* the dicts a script can print: each key absent or with one of a few values
Outputs ==
  LET Absent == "<absent>"
      Lists == UNION { [1..n -> Elements] : n \in 0..MaxItems }
      Full == [items : { [kind |-> "absent", elems |-> <<>>], [kind |-> "scalar", elems |-> <<>>] }
                         \cup { [kind |-> "list", elems |-> l] : l \in Lists },
               deviceId : {Absent, "null", "", "d9"},
               entityType : {Absent, "", "ROOM"},
               telemetry : {Absent, "{}", "{t}"},
               attributes : {Absent, "{a}"}]
      Present(full, key) == IF key = "items" THEN full[key].kind # "absent"
                            ELSE full[key] # Absent
  IN { [key \in {k \in DOMAIN full : Present(full, k)} |-> full[key]] : full \in Full }

\* one call of normalize_output, as run_cycle makes it after run_script
Normalize ==
  /\ ~norm.made
  /\ \E output \in Outputs, default_device \in {None, 1} :
       norm' = [made |-> TRUE, output |-> output, default_device |-> default_device,
                entity_type |-> "DEVICE",
                result |-> normalize_output(output, default_device, "DEVICE")]
  /\ UNCHANGED <<envVars, sharedVars, clock, runnerVars, cacheVars, cyc, pc, req, ret, exc,
                 cycleVars, histVars>>

SpecNormalize == InitCache /\ [][Normalize]_vars

(* -------------------------- run_cycle, call by call --------------------- *)
\* the longest script list and the most devices of the cycle followed, and the
\* seconds that pass while it runs
MaxScripts == 2
MaxCycleDevices == 2
MaxCycleTicks == 1

\* a run_script call: the script's index, the device's index (0 for a global
\* script), the devices its payload embeds and the default passed to normalize_output
Call(s, d, embedded, default) == [s |-> s, d |-> d, embedded |-> embedded, default |-> default]

\* a filter of a run request: given or not, and the names or ids it lists
Filter(given, ids) == [given |-> given, ids |-> ids]

\* refresh_sec = int(refreshSec or 600); refresh = (now % refresh_sec) < 2
Refresh(now, refreshSec) == (now % (IF refreshSec = None THEN 600 ELSE refreshSec)) < 2

\* run_cycle is entered: the scripts of the mapping by scope (named by their
\* place) and its devices, both cut down by the filters of the request; the
\* refresh flag from the time in seconds; and resolved, the names of the scripts
\* for which fetch_script returns a path
CycStart ==
  /\ ~cyc.made
  /\ \E n \in 0..MaxScripts, k \in 0..MaxCycleDevices, now \in {1, 2, 601},
        refreshSec \in {None, 1, 3},
        only_scripts \in {Filter(FALSE, <<>>), Filter(TRUE, <<>>), Filter(TRUE, <<1>>)},
        only_devices \in {Filter(FALSE, <<>>), Filter(TRUE, <<>>), Filter(TRUE, <<1>>),
                          Filter(TRUE, <<2, 1>>)} :
       \E scopes \in [1..n -> {"global", "per-device"}], resolved \in SUBSET (1..n) :
         LET m == [scripts |-> [i \in 1..n |-> Script(i, scopes[i])],
                   devices |-> [i \in 1..k |-> i]]
             p == Payload(only_scripts.ids, only_devices.ids)
         IN cyc' = [made |-> TRUE, phase |-> "fetch",
                    only_scripts |-> only_scripts, only_devices |-> only_devices,
                    scripts |-> FilterScripts(m, p), devices |-> FilterDevices(m, p),
                    resolved |-> resolved, globalDevice |-> MaxCycleDevices + 1,
                    started |-> now, now |-> now, refreshSec |-> refreshSec,
                    refresh |-> Refresh(now, refreshSec),
                    s |-> 1, d |-> 0, fetches |-> <<>>, calls |-> <<>>]
  /\ UNCHANGED <<envVars, sharedVars, clock, runnerVars, cacheVars, norm, pc, req, ret, exc,
                 cycleVars, histVars>>

\* time passes while the cycle runs
CycTick ==
  /\ cyc.made /\ cyc.phase \in {"fetch", "run"}
  /\ cyc.now < cyc.started + MaxCycleTicks
  /\ cyc' = [cyc EXCEPT !.now = cyc.now + 1]
  /\ UNCHANGED <<envVars, sharedVars, clock, runnerVars, cacheVars, norm, pc, req, ret, exc,
                 cycleVars, histVars>>

\* for script in scripts: the loop ends, or fetch_script(script, allowlist,
\* refresh) is called and returns None (the loop goes to "unresolved") or a path:
\* a global script goes to its one call, a per-device script to its call for the
\* first device; or fetch_script (or a telemetry fetch) raises
Fetch(refresh, unresolved) ==
  /\ cyc.made /\ cyc.phase = "fetch"
  /\ \/ cyc' = IF cyc.s > Len(cyc.scripts) THEN [cyc EXCEPT !.phase = "done"]
               ELSE LET fetched == [cyc EXCEPT !.fetches = Append(cyc.fetches, refresh)] IN
                    IF cyc.scripts[cyc.s].name \notin cyc.resolved
                    THEN IF unresolved = "continue" THEN [fetched EXCEPT !.s = cyc.s + 1]
                         ELSE [fetched EXCEPT !.phase = "done"]
                    ELSE IF cyc.scripts[cyc.s].scope = "global"
                    THEN [fetched EXCEPT !.phase = "run", !.d = 0]
                    ELSE IF cyc.devices = <<>> THEN [fetched EXCEPT !.s = cyc.s + 1]
                    ELSE [fetched EXCEPT !.phase = "run", !.d = 1]
     \/ /\ cyc.s <= Len(cyc.scripts)
        /\ cyc' = [cyc EXCEPT !.phase = "aborted"]
  /\ UNCHANGED <<envVars, sharedVars, clock, runnerVars, cacheVars, norm, pc, req, ret, exc,
                 cycleVars, histVars>>

\* a cycle whose loop ends at the first script that does not resolve
CycFetchBreak == Fetch(cyc.refresh, "break")

\* a cycle that works the refresh flag out anew for each script
CycFetchRecompute == Fetch(Refresh(cyc.now, cyc.refreshSec), "continue")

CycFetch == Fetch(cyc.refresh, "continue")

\* output = run_script(...); items.extend(normalize_output(output or {}, default,
\* "DEVICE")): the call returns (an output or None) and the loop goes on, or it
\* raises (killed, timeout, bad JSON), as the next telemetry fetch can
CycRun ==
  /\ cyc.made /\ cyc.phase = "run"
  /\ LET call == IF cyc.d = 0 THEN Call(cyc.s, 0, cyc.devices, cyc.globalDevice)
                 ELSE Call(cyc.s, cyc.d, <<cyc.devices[cyc.d]>>, cyc.devices[cyc.d])
         called == [cyc EXCEPT !.calls = Append(cyc.calls, call)]
     IN \/ cyc' = IF cyc.d = 0 \/ cyc.d = Len(cyc.devices)
                  THEN [called EXCEPT !.phase = "fetch", !.s = cyc.s + 1, !.d = 0]
                  ELSE [called EXCEPT !.d = cyc.d + 1]
        \/ cyc' = [called EXCEPT !.phase = "aborted"]
  /\ UNCHANGED <<envVars, sharedVars, clock, runnerVars, cacheVars, norm, pc, req, ret, exc,
                 cycleVars, histVars>>

NextCycle == CycStart \/ CycTick \/ CycFetch \/ CycRun

SpecCycle == InitCache /\ [][NextCycle]_vars

(* ========================== claims ===================================== *)
KillPcs == {"k_job", "k_read", "k_poll", "k_term", "k_clear"}
Terminal == {"done", "error", "canceled"}

\* C1: at most one thread at a time is between a successful acquisition of the
\* cycle lock and its release: at most one cycle is executing at any moment, and
\* a cycle executes only while the lock is held.
C1_OneCycleAtATime ==
  /\ Cardinality({ t \in Threads : InCycle(t) }) <= 1
  /\ (\E t \in Threads : InCycle(t)) => RUN_LOCK

\* C1 witness: a cycle is executing while another thread is at its acquisition attempt
C1_Contention ==
  \E t, u \in Threads : t # u /\ InCycle(t) /\ pc[t] = "rs_poll" /\ pc[u] = "ec_acquire"

C3_KillEndsCanceled ==
  \A j \in killedRunning :
    /\ pc[j] \in {"rj_finally", "done"} => JOBS[j].status = "canceled"
    /\ pc[j] = "done" /\ ~RUN_LOCK => STATUS.running_job_id = None

\* C4: each job's status is one of queued, running, done, error, canceled, and a
\* status changes only from queued to running, from running to done, error or
\* canceled, or (a kill request) from queued to canceled.
C4_StatusMachine ==
  [][\A j \in DOMAIN JOBS' :
       /\ JOBS'[j].status \in {"queued", "running", "done", "error", "canceled"}
       /\ (j \in DOMAIN JOBS /\ JOBS'[j].status # JOBS[j].status) =>
            \/ JOBS[j].status = "queued" /\ JOBS'[j].status \in {"running", "canceled"}
            \/ JOBS[j].status = "running" /\ JOBS'[j].status \in Terminal
  ]_vars

\* C5: once a job's status is done, error or canceled, no step changes its
\* status, result or finished_ts.
C5_TerminalIsFinal ==
  [][\A j \in DOMAIN JOBS :
       JOBS[j].status \in Terminal =>
         /\ JOBS'[j].status = JOBS[j].status
         /\ JOBS'[j].result = JOBS[j].result
         /\ JOBS'[j].finished_ts = JOBS[j].finished_ts
  ]_vars

\* C6: when a job's worker records the end of its cycle, the status is done if
\* the cycle returned ok, error with a detail if it failed, canceled if the cycle
\* observed the cancellation flag, and finished_ts is set.
C6_CompletionStatus ==
  [][\A j \in DOMAIN JOBS :
       (pc[j] = "rj_update" /\ pc'[j] = "rj_finally") =>
         /\ ret[j].status = "ok" => JOBS'[j].status = "done"
         /\ ret[j].status = "error" =>
              JOBS'[j].status = "error" /\ JOBS'[j].result.detail # ""
         /\ ret[j].status = "killed" => JOBS'[j].status = "canceled"
         /\ JOBS'[j].finished_ts # NoTs
  ]_vars

\* C7: a kill request carrying a job id leaves the registry unchanged when the
\* id is unknown or the job is already done, error or canceled.
C7_KillFrame ==
  [][(pc[HTTP] = "k_job" /\ pc'[HTTP] = "k_read"
      /\ (req.jobId \notin DOMAIN JOBS \/ JOBS[req.jobId].status \in Terminal))
     => JOBS' = JOBS
  ]_vars

\* C8: a kill request answers idle and clears the flag only when no cycle is in
\* flight: a kill request that set the flag while a cycle held the lock, and is
\* answered while that cycle still holds it, answers killing.
C8_IdleOnlyWhenNoCycle ==
  [][(pc[HTTP] = "k_clear" /\ pc'[HTTP] = "idle") => ~(killDuring /\ RUN_LOCK)]_vars

\* C9: the flag is clear whenever no cycle is in flight and no kill request is
\* being processed, and a cycle observes the flag (and ends as killed) only if a
\* kill request set it while this cycle held the lock, never because of a kill
\* request that returned before the cycle started.
C9_FlagScoped ==
  /\ (~RUN_LOCK /\ pc[HTTP] \notin KillPcs) => ~CANCEL_EVENT
  /\ \A t \in Threads :
       (InCycle(t) /\ (exc[t] = "killed" \/ ret[t].status = "killed")) => killDuring

\* C9 witness: a cycle ended as killed, the kill request has returned, no cycle is
\* in flight and a later run attempt is about to start with the flag clear
C9_ClearAfterKilledCycle ==
  /\ STATUS.status = "killed" /\ ~RUN_LOCK /\ ~CANCEL_EVENT
  /\ pc[HTTP] = "ec_acquire"

\* C10: an invocation that exceeds its timeout contributes no items and the
\* cycle goes on: from the timeout the runner returns to run_cycle, which keeps
\* its items and continues with the next invocation or the publish call, and the
\* cycle does not end in the error branch because of the timeout.
C10_TimeoutIsLocal ==
  [][\A t \in Threads :
       (pc[t] = "rs_finally" /\ exc[t] = "timeout" /\ pc'[t] # "rs_finally") =>
         \/ pc'[t] \in {"rs_check", "rc_post"} /\ items'[t] = items[t]
         \/ pc'[t] = "ec_except" /\ exc'[t] # "timeout"
  ]_vars

\* C11: a child that exits non-zero, or exits with standard output that is not
\* valid JSON (empty output included), contributes no items and the cycle goes
\* on: the runner returns to run_cycle, which keeps its items and continues with
\* the next invocation or the publish call (or meets the failure of a later
\* HTTP call, which is not this invocation's).
C11_FailureIsLocal ==
  [][\A t \in Threads :
       (/\ pc[t] = "rs_finally" /\ pc'[t] # "rs_finally"
        /\ exc[t] = "" /\ RUN_PROC = t
        /\ (procs[t].returncode # 0 \/ ~ValidJson(procs[t].stdout)))
       => \/ pc'[t] \in {"rs_check", "rc_post"} /\ items'[t] = items[t]
          \/ pc'[t] = "ec_except" /\ exc'[t] = "network"
  ]_vars

\* C12: a failed artifact fetch, telemetry fetch or publish call never changes
\* the outcome of the cycle: no cycle ends with status error because of a
\* failed HTTP call.
C12_HttpFailureIsLocal ==
  \A t \in Threads : ~(ret[t].status = "error" /\ ret[t].detail = "network")

C20_RunningJobHadItsCycle ==
  [][\A j \in DOMAIN JOBS :
       (pc[j] = "rj_update" /\ pc'[j] = "rj_finally") =>
          ret[j].status \in {"ok", "disabled", "error", "killed"}
  ]_vars

\* the positions of a thread inside run_script after the Popen
RunScriptPcs == {"rs_cancel", "rs_poll", "rs_finally"}
\* the positions of a thread inside run_cycle
RunCyclePcs == {"rs_check", "rs_spawn", "rc_post"} \cup RunScriptPcs

\* C21 (as stated): a job whose worker has ended is in one of the terminal
\* statuses done, error and canceled, with finished_ts set, and so has left
\* queued and running for good.
C21_EndedJobIsTerminal ==
  \A j \in DOMAIN JOBS :
    pc[j] = "done" => (JOBS[j].status \in Terminal /\ JOBS[j].finished_ts # NoTs)

\* C22 (as stated): while a cycle is running, whichever entry point started it,
\* a health or status request can be answered at once, the server thread not
\* being inside the handler of a kill or of a run that is about to try the lock.
C22_GetAnsweredDuringCycle ==
  ((\E t \in Threads : InCycle(t)) /\ pc[HTTP] \notin KillPcs \cup {"ec_acquire"})
    => ENABLED DoGet

\* C23: at most one child process is tracked; the handle RUN_PROC is set only
\* while a run_script call is active in the thread whose cycle holds the lock,
\* and it is None again once that call has returned, by whatever path.
C23_HandleOnlyInRunScript ==
  /\ Cardinality({t \in Threads : procs[t] # NoProc}) <= 1
  /\ RUN_PROC # None =>
        /\ RUN_PROC \in Threads
        /\ RUN_LOCK
        /\ pc[RUN_PROC] \in RunScriptPcs
        /\ \A t \in Threads : procs[t] # NoProc => t = RUN_PROC
  /\ \A t \in Threads : pc[t] \notin RunScriptPcs => procs[t] = NoProc

\* C23 witness: run_script has left by its timeout exception and the handle is
\* None again while the cycle is still in its except branch
C23_ClearedAfterTimeout ==
  \E t \in Threads : pc[t] = "ec_except" /\ exc[t] = "timeout" /\ RUN_PROC = None /\ RUN_LOCK

\* C24: with an unreadable mapping file a cycle attempt spawns no child and
\* publishes nothing, goes from the read to the except branch, returns error
\* with the detail and records it in STATUS, then clears the cancellation flag,
\* resets running_job_id and releases the lock; its thread is back where it
\* takes its next tick or request.
C24_UnreadableMapping ==
  [][~mappingFile.ok =>
       \A t \in Threads :
         /\ procs'[t] = NoProc /\ posts'[t] = <<>> /\ RUN_PROC' = None
         /\ pc'[t] \notin RunCyclePcs
         /\ (pc[t] = "ec_read" /\ pc'[t] # pc[t]) =>
               (pc'[t] = "ec_except" /\ exc'[t] = "mapping")
         /\ (pc[t] = "ec_except" /\ pc'[t] # pc[t]) =>
               /\ pc'[t] = "ec_finally"
               /\ ret'[t] = Result("error", -1, "mapping")
               /\ STATUS'.status = "error" /\ STATUS'.last_error = "mapping"
         /\ (pc[t] = "ec_finally" /\ pc'[t] # pc[t]) =>
               /\ pc'[t] = "ec_release"
               /\ ~CANCEL_EVENT' /\ STATUS'.running_job_id = None
         /\ (pc[t] = "ec_release" /\ pc'[t] # pc[t]) =>
               (~RUN_LOCK' /\ pc'[t] = AfterCycle(t))
  ]_vars

\* C24 witness: the cycle of the scheduler is about to release the lock after
\* the read of the mapping has failed
C24_FailedReadReleasing ==
  /\ ~mappingFile.ok
  /\ pc[SCHED] = "ec_release" /\ STATUS.status = "error" /\ STATUS.last_error = "mapping"
  /\ ~CANCEL_EVENT /\ RUN_LOCK

\* C25: with the predictor's enabled flag false a cycle returns disabled with
\* item count 0 straight from the read of the mapping: it never enters the
\* script loop (no artifact, no telemetry), spawns no child and publishes nothing.
C25_DisabledDoesNothing ==
  [][(mappingFile.ok /\ ~mappingFile.enabled) =>
       \A t \in Threads :
         /\ procs'[t] = NoProc /\ posts'[t] = <<>> /\ RUN_PROC' = None
         /\ pc'[t] \notin RunCyclePcs /\ items'[t] = <<>>
         /\ (pc[t] = "ec_read" /\ pc'[t] # pc[t]) =>
               /\ pc'[t] = "ec_finally"
               /\ ret'[t] = Result("disabled", 0, "")
               /\ STATUS'.status = "disabled" /\ STATUS'.last_items = 0
  ]_vars

\* C25 witness: a synchronous run over a disabled predictor is about to release
\* the lock with its disabled result
C25_DisabledReleasing ==
  /\ mappingFile.ok /\ ~mappingFile.enabled
  /\ pc[HTTP] = "ec_release" /\ ret[HTTP] = Result("disabled", 0, "")

\* C26: a cycle sends at most one publish request; it sends it from the step
\* after the script loop, when no invocation is in progress and none follows,
\* only with at least one item, and the request carries the items accumulated,
\* each invocation having appended its items after those of the earlier ones.
C26_OnePublish ==
  [][\A t \in Threads :
       /\ Len(posts'[t]) <= 1
       /\ posts'[t] # <<>> => pc'[t] \in {"ec_except", "ec_finally", "ec_release"}
       /\ (posts[t] = <<>> /\ posts'[t] # <<>>) =>
             /\ pc[t] = "rc_post" /\ procs[t] = NoProc /\ RUN_PROC = None
             /\ items[t] # <<>>
             /\ posts'[t][1].body = items[t]
       /\ (pc[t] = "rs_finally" /\ pc'[t] \in {"rs_check", "rc_post"}) =>
             /\ Len(items'[t]) >= Len(items[t])
             /\ SubSeq(items'[t], 1, Len(items[t])) = items[t]
  ]_vars

\* C26 witness: a cycle of two invocations has sent its one request, which
\* carries the item of the first invocation before the item of the second
C26_TwoItemsOnePublish ==
  \E t \in Threads :
    /\ Len(posts[t]) = 1 /\ Len(posts[t][1].body) = 2
    /\ posts[t][1].body[1].deviceId = GlobalDevice
    /\ posts[t][1].body[2].deviceId \in Range(AllDevices)

\* C27: the item count that a cycle returns and records as last_items is the
\* number of items its invocations produced, whatever the publish request was
\* answered (or when there was nothing to publish).
C27_CountIsProduced ==
  [][\A t \in Threads :
       (pc[t] = "rc_post" /\ pc'[t] = "ec_finally") =>
          /\ ret'[t] = Result("ok", Len(items[t]), "")
          /\ STATUS'.last_items = Len(items[t])
  ]_vars

\* C27 witness: the publish request was answered 500 and the cycle returns the
\* count of the items it carried
C27_CountedDespiteRefusal ==
  \E t \in Threads :
    /\ pc[t] = "ec_finally" /\ Len(posts[t]) = 1 /\ posts[t][1].code = 500
    /\ ret[t].status = "ok" /\ ret[t].items = Len(posts[t][1].body) /\ ret[t].items > 0
    /\ STATUS.last_items = ret[t].items

\* C28 (amended): normalize_output agrees with this reference for every output
\* dict and default device id: an empty output gives nothing; else an items
\* list gives those of its elements that are JSON objects, in order and
\* unchanged; else, if a device id is resolvable (a non-empty output deviceId,
\* else the per-call default), exactly one item whose entityType, telemetry
\* and attributes are the output's or, when absent or empty, DEVICE, {} and {};
\* else nothing.
C28_NormalizeAmended ==
  norm.made =>
    LET o == norm.output
        d == norm.default_device
        hasList == "items" \in DOMAIN o /\ o["items"].kind = "list"
        own == "deviceId" \in DOMAIN o /\ o["deviceId"] \notin Falsy
    IN norm.result =
         IF DOMAIN o = {} THEN <<>>
         ELSE IF hasList THEN SelectSeq(o["items"].elems, LAMBDA e : e.dict)
         ELSE IF own \/ d # None
         THEN << [deviceId |-> IF own THEN o["deviceId"] ELSE d,
                  entityType |-> GetOr(o, "entityType", norm.entity_type),
                  telemetry |-> GetOr(o, "telemetry", "{}"),
                  attributes |-> GetOr(o, "attributes", "{}")] >>
         ELSE <<>>

\* C28 witness: an items list with an element that is no JSON object before
\* one that is has been normalized to the latter alone
C28_NonDictDropped ==
  /\ norm.made /\ "items" \in DOMAIN norm.output
  /\ norm.output["items"].kind = "list" /\ Len(norm.output["items"].elems) = 2
  /\ ~norm.output["items"].elems[1].dict /\ norm.output["items"].elems[2].dict
  /\ norm.result = <<norm.output["items"].elems[2]>>

\* C28 (as stated): an items list gives all its elements in order and
\* unchanged; otherwise a resolvable device id (the output's, else the default)
\* gives exactly one item; otherwise nothing.
C28_NormalizeAsStated ==
  norm.made =>
    LET o == norm.output
        d == norm.default_device
        hasList == "items" \in DOMAIN o /\ o["items"].kind = "list"
        own == "deviceId" \in DOMAIN o /\ o["deviceId"] \notin Falsy
    IN norm.result =
         IF hasList THEN o["items"].elems
         ELSE IF own \/ d # None
         THEN << [deviceId |-> IF own THEN o["deviceId"] ELSE d,
                  entityType |-> GetOr(o, "entityType", norm.entity_type),
                  telemetry |-> GetOr(o, "telemetry", "{}"),
                  attributes |-> GetOr(o, "attributes", "{}")] >>
         ELSE <<>>

\* C29 (as stated): every step that changes STATUS is a step of the thread
\* whose cycle holds the lock.
C29_StatusWrittenUnderLock ==
  [][STATUS' # STATUS =>
       \E t \in Threads : RUN_LOCK /\ InCycle(t) /\ pc'[t] # pc[t]
  ]_vars

\* C30: in a cycle that completes, every run_script call is made once, and the
\* calls are exactly one per resolved global script, its payload embedding all
\* the filtered devices and its output normalized with the global device id,
\* and one per pair of a resolved per-device script and a filtered device,
\* normalized with that device's id; a script that does not resolve has no call
\* and the scripts after it have theirs.
C30_ExactInvocations ==
  (cyc.made /\ cyc.phase = "done") =>
    LET Scripts(scope) == {s \in DOMAIN cyc.scripts : /\ cyc.scripts[s].name \in cyc.resolved
                                                      /\ cyc.scripts[s].scope = scope}
        expected ==
          { Call(s, 0, cyc.devices, cyc.globalDevice) : s \in Scripts("global") }
          \cup { Call(p[1], p[2], <<cyc.devices[p[2]]>>, cyc.devices[p[2]]) :
                   p \in Scripts("per-device") \X DOMAIN cyc.devices }
    IN /\ Range(cyc.calls) = expected
       /\ Len(cyc.calls) = Cardinality(expected)
       /\ \A i, j \in DOMAIN cyc.calls :
            i < j => \/ cyc.calls[i].s < cyc.calls[j].s
                     \/ cyc.calls[i].s = cyc.calls[j].s /\ cyc.calls[i].d < cyc.calls[j].d

\* C30 witness: a completed cycle whose first script did not resolve and whose
\* second, a per-device script, was called for each of two filtered devices
C30_SkippedThenCalled ==
  /\ cyc.made /\ cyc.phase = "done"
  /\ Len(cyc.scripts) = 2 /\ cyc.resolved = {2} /\ cyc.scripts[2].scope = "per-device"
  /\ Len(cyc.devices) = 2 /\ Len(cyc.calls) = 2

\* C32: once the runner has seen the cancellation flag, before a spawn or in the
\* poll loop, its cycle goes to the except branch without another child and
\* without a publish call, its items are dropped, and it returns killed with
\* STATUS recording status killed and last_error killed.
C32_KilledCycle ==
  [][\A t \in Threads :
       /\ (pc[t] = "rs_check" /\ CANCEL_EVENT /\ pc'[t] # pc[t]) =>
             (pc'[t] = "ec_except" /\ exc'[t] = "killed")
       /\ (pc[t] = "rs_cancel" /\ CANCEL_EVENT /\ pc'[t] # pc[t]) =>
             (pc'[t] = "rs_finally" /\ exc'[t] = "killed")
       /\ (exc[t] = "killed" /\ pc[t] \in {"rs_finally", "ec_except"}) =>
             /\ pc'[t] \in {pc[t], "ec_except", "ec_finally"}
             /\ posts'[t] = <<>>
             /\ pc'[t] # pc[t] => (items'[t] = <<>> /\ procs'[t] = NoProc)
             /\ pc'[t] = "ec_finally" =>
                   /\ ret'[t] = Result("killed", -1, "")
                   /\ STATUS'.status = "killed" /\ STATUS'.last_error = "killed"
       /\ (ret[t].status = "killed" /\ InCycle(t)) =>
             (posts'[t] = <<>> /\ pc'[t] \in {pc[t], "ec_release", AfterCycle(t)})
  ]_vars

\* C32 witness: a cycle that had produced an item has seen the flag in its poll
\* loop and is leaving run_script by the killed exception
C32_KilledWithItems ==
  \E t \in Threads :
    /\ pc[t] = "rs_finally" /\ exc[t] = "killed" /\ items[t] # <<>> /\ killDuring

\* C33 (as stated, its last clause): when a kill request issued during a cycle
\* has answered killing, that cycle does not complete with status ok and has
\* published nothing.
C33_KillingNeverOk ==
  \A t \in Threads :
    (pc[t] = "ec_release" /\ killDuring /\ killing) =>
      (ret[t].status # "ok" /\ posts[t] = <<>>)

\* C34 (as stated): running_job_id is None or the id of the job whose worker
\* holds the cycle lock.
C34_RunningJobIdIsLockHolder ==
  STATUS.running_job_id # None =>
    /\ STATUS.running_job_id \in DOMAIN JOBS
    /\ RUN_LOCK /\ InCycle(STATUS.running_job_id)

\* C36 (as stated): every kill request ends with the answer killing (after its
\* terminate call) or idle (after it cleared the flag).
C36_KillAlwaysAnswers ==
  [][(pc[HTTP] \in KillPcs /\ pc'[HTTP] = "idle") => pc[HTTP] \in {"k_term", "k_clear"}]_vars

\* C37 (as stated): at most one job has status running, and a job has status
\* running only while its worker holds the cycle lock, is about to take the
\* free lock, or is about to record its final status.
C37_RunningHoldsLock ==
  /\ Cardinality({j \in DOMAIN JOBS : JOBS[j].status = "running"}) <= 1
  /\ \A j \in DOMAIN JOBS :
       JOBS[j].status = "running" =>
         \/ RUN_LOCK /\ InCycle(j)
         \/ pc[j] = "ec_acquire" /\ ~RUN_LOCK
         \/ pc[j] = "rj_update"

\* C38 (as stated): finished_ts and result are set exactly when the status is
\* neither queued nor running, started_ts is unset while the status is queued,
\* and started_ts is not later than finished_ts when both are set.
C38_TimestampsMatchStatus ==
  \A j \in DOMAIN JOBS :
    /\ (JOBS[j].finished_ts # NoTs /\ JOBS[j].result # NoResult)
         <=> JOBS[j].status \notin {"queued", "running"}
    /\ (JOBS[j].finished_ts # NoTs) <=> (JOBS[j].result # NoResult)
    /\ JOBS[j].status = "queued" => JOBS[j].started_ts = NoTs
    /\ (JOBS[j].started_ts # NoTs /\ JOBS[j].finished_ts # NoTs)
         => JOBS[j].started_ts <= JOBS[j].finished_ts

\* C40 (as stated): a job that a kill request marked canceled while it was
\* queued is not moved to running afterwards and no cycle is tried for it.
C40_CanceledQueuedStaysOut ==
  [][\A j \in DOMAIN JOBS :
       (JOBS[j].status = "canceled" /\ JOBS[j].started_ts = NoTs) =>
          (JOBS'[j].status # "running" /\ pc'[j] # "ec_acquire")
  ]_vars

\* C39 (as stated): a call answered from the cache right after a call that
\* downloaded and stored that same file is a call for a descriptor with the
\* same repository (surrounding blanks apart), name, revision and path.
C39_NoSharedEntry ==
  [][(/\ last.made /\ last.fetched /\ last.result \notin {NoPath, Raised}
      /\ last'.made /\ ~last'.fetched /\ last'.result = last.result)
     => /\ Strip(last'.script.repo) = Strip(last.script.repo)
        /\ last'.script.name = last.script.name
        /\ last'.script.ref = last.script.ref
        /\ last'.script.path = last.script.path
  ]_vars

\* C31 (as stated): with a script filter given, every script invoked is named
\* in it; with a device filter given, every device a payload carries is listed
\* in it; the full sets are used only when the filter is not given.
C31_FiltersRespected ==
  cyc.made =>
    \A i \in DOMAIN cyc.calls :
      /\ cyc.only_scripts.given =>
            cyc.scripts[cyc.calls[i].s].name \in Range(cyc.only_scripts.ids)
      /\ cyc.only_devices.given =>
            Range(cyc.calls[i].embedded) \subseteq Range(cyc.only_devices.ids)

\* C35: every fetch_script call of a cycle is passed the same refresh flag, the
\* one worked out from the time in whole seconds at which the cycle began:
\* (time mod refreshSec) < 2, refreshSec being 600 when the mapping gives none.
C35_RefreshOncePerCycle ==
  cyc.made =>
    \A i \in DOMAIN cyc.fetches :
      cyc.fetches[i] = ((cyc.started % (IF cyc.refreshSec = None THEN 600
                                        ELSE cyc.refreshSec)) < 2)

\* C35 witness: the second script of a cycle was resolved with the flag of the
\* cycle's start, set, at a time at which the flag worked out anew is not
C35_FlagKeptAcrossSecond ==
  /\ cyc.made /\ Len(cyc.fetches) = 2 /\ cyc.fetches[2]
  /\ cyc.now # cyc.started /\ ~Refresh(cyc.now, cyc.refreshSec)

\* C13: a child that never exits on its own does not hold the runner: from the
\* Popen on, the runner is out of run_script (the child terminated, the Timeout
\* raised) at most one sleep of the poll loop after the timeout has expired.
C13_TimeoutBound ==
  (pc[Runner] \in {"rs_write", "rs_cancel", "rs_poll", "rs_sleep"} /\ ~child.exits)
    => clock - spawnedAt <= MaxRunTicks + SleepTicks

\* a descriptor pins a content hash: its sha256 is neither empty nor the placeholder
Pinned(script) == script.sha256 # "" /\ script.sha256 # "<sha256>"
\* the policy tests of a descriptor fail: repository not allowed, or empty ref or path
PolicyRejects(script, allowlist) ==
  ~allow_repo(script.repo, allowlist) \/ script.ref = <<>> \/ script.path = <<>>
\* the last call got a 200 whose body does not hash to the pinned value
HashMismatch(call) ==
  /\ call.made /\ call.fetched /\ call.response.code = 200
  /\ Pinned(call.script) /\ sha256_hex(call.response.content) # call.script.sha256

\* C14: a call for a descriptor with a pinned hash whose fetched content does not
\* hash to the pinned value returns no path and leaves the cache as it was: no
\* entry is created and none is overwritten.
C14_MismatchLeavesCache ==
  [][HashMismatch(last') => (last'.result = NoPath /\ cache' = cache)]_vars

\* C14 witness: a forced refresh fetched content that does not match the pin
\* while the cache holds an entry under the descriptor's key
C14_MismatchOnRefresh ==
  /\ HashMismatch(last) /\ last.refresh
  /\ safe_name(last.script) \in DOMAIN cache

\* C15: whenever a call returns a path for a descriptor that pins a hash, the
\* content of the cached file hashes to the pinned value.
C15_CachedMatchesPin ==
  (last.made /\ last.result.kind = "path" /\ Pinned(last.script))
    => sha256_hex(cache[last.result.path]) = last.script.sha256

\* C16: a call with refresh false for a descriptor that passes the policy tests
\* and whose key has a cache file returns that path, sends no request and
\* leaves the cache as it is; so the call that follows a call that returned a
\* path, for the same descriptor and without refresh, performs no fetch.
C16_CacheHit ==
  [][/\ ( /\ last'.made /\ ~last'.refresh
          /\ ~PolicyRejects(last'.script, last'.allowlist)
          /\ safe_name(last'.script) \in DOMAIN cache )
        => ( /\ last'.result = Path(safe_name(last'.script))
             /\ ~last'.fetched
             /\ cache' = cache )
     /\ ( /\ last.made /\ last.result.kind = "path"
          /\ last'.script = last.script /\ last'.allowlist = last.allowlist
          /\ ~last'.refresh )
        => ( ~last'.fetched /\ last'.result = last.result /\ cache' = cache )
  ]_vars

\* C16 witness: a call without refresh was answered from the cache
C16_AnsweredFromCache ==
  /\ last.made /\ ~last.refresh /\ ~last.fetched
  /\ last.result.kind = "path" /\ last.result.path \in DOMAIN cache

\* C17: a call for a descriptor whose repository is not in the allow-list, or
\* whose ref or path is empty, returns no path, sends no request and leaves the
\* cache as it is, also when the key has a cache file and refresh is false.
C17_PolicyRejection ==
  [][(last'.made /\ PolicyRejects(last'.script, last'.allowlist))
       => (last'.result = NoPath /\ ~last'.fetched /\ cache' = cache)]_vars

\* C17 witness: a descriptor of a repository that is not allowed was rejected,
\* without refresh, while the cache holds a file under its key
C17_RejectedDespiteCache ==
  /\ last.made /\ ~last.refresh
  /\ ~allow_repo(last.script.repo, last.allowlist)
  /\ last.script.ref # <<>> /\ last.script.path # <<>>
  /\ safe_name(last.script) \in DOMAIN cache

\* C18: the content of a cache entry changes only through a successful forced
\* refresh: no entry is removed, and an entry changes only in a call with
\* refresh true that fetched a 200 and returned the entry's path.
C18_OnlyRefreshReplaces ==
  [][\A f \in DOMAIN cache :
       /\ f \in DOMAIN cache'
       /\ cache'[f] # cache[f] =>
            /\ last'.made /\ last'.refresh /\ last'.fetched
            /\ last'.response.code = 200
            /\ last'.result = Path(f)
  ]_vars

\* C18 witness: a forced refresh failed with a non-success response while the
\* cache holds an entry under the descriptor's key
C18_FailedRefresh ==
  /\ last.made /\ last.refresh /\ last.fetched
  /\ last.response.code = 404
  /\ safe_name(last.script) \in DOMAIN cache

====
